---- MODULE Spec2Model ----
(***************************************************************************)
(* State-machine model of the resilient external-API access layer of the   *)
(* repository: DataGovClient (src/src/external/gov/client.py).             *)
(*                                                                         *)
(* One DataGovClient instance is modelled.  Every logical request made     *)
(* through it is a "call" c \in Calls with its own coroutine frame (pc,    *)
(* retries, last_exception, kwargs).  A step of the model is the code a    *)
(* coroutine runs between two suspension points (await of the HTTP         *)
(* request, await of asyncio.sleep): asyncio never interleaves anything    *)
(* inside such a stretch.                                                  *)
(***************************************************************************)
EXTENDS Integers, Sequences, FiniteSets, TLC

\* ------------------------------------------------------------------ bounds
\* Largest max_retries a client is constructed with.
MaxRetries == 3
\* Largest retry_delay (seconds) a client is constructed with.
MaxRetryDelay == 2
\* Largest number of httpx.AsyncClient objects one client constructs in a run.
MaxClients == 2
MaxTtl == 2
MaxParts == 4
\* Largest number of redis.Redis objects the threads construct in a run.
MaxRedisClients == 3

\* ------------------------------------------------------- program constants
\* Defaults of DataGovClient.__init__(max_retries=3, retry_delay=1).
DefaultMaxRetries == 3
DefaultRetryDelay == 1
\* Defaults of get_mandi_prices(offset=0, limit=10).
DefaultOffset == 0
DefaultLimit == 10

\* Call slots of the one client.  The sequential specifications start
\* requests only in slot 1.
Calls == {1, 2}
SeqCalls == {1}

\* settings.DATA_GOV_API_KEY, read once in __init__.
api_key == "KEY"

\* Python's None where a str is expected.
None == "None"

\* ----------------------------------------------------------------- dicts
\* A Python dict is a function from its keys to its values; an optional
\* dict argument is a record saying whether it is None.
EmptyDict == <<>>
NoneParams == [isNone |-> TRUE, dict |-> EmptyDict]
Dict(d) == [isNone |-> FALSE, dict |-> d]

\* d[k] = v  (insert or overwrite)
DictSet(d, k, v) == [x \in (DOMAIN d) \cup {k} |-> IF x = k THEN v ELSE d[x]]

\* bool(params): None and the empty dict are falsy.
Truthy(p) == ~p.isNone /\ DOMAIN p.dict # {}

\* The params arguments callers pass to get/post/put/delete.
CallerParams ==
    { NoneParams,
      Dict(EmptyDict),
      Dict("q" :> "wheat"),
      Dict("api-key" :> "caller-key"),
      Dict(("api-key" :> "caller-key") @@ ("q" :> "wheat")) }

\* The data arguments callers pass to post/put (json=data).
CallerData == {None, "payload"}

\* ------------------------------------------------------------- responses
\* What one HTTP attempt can end with: a response with a status code and a
\* body text, or a transport-level exception raised by httpx.
RetryableStatus == {408, 429, 500, 502, 503, 504}
ClientErrorStatus == {400, 401, 404}
SuccessStatus == {200}
\* httpx.ConnectError is a NetworkError, httpx.ReadTimeout a TimeoutException;
\* both are httpx.TransportError, hence httpx.HTTPError.
TransportKinds == {"ConnectError", "ReadTimeout"}

\* Body texts of success responses: two JSON documents and two that are not.
JsonBodies == {"{\"count\":0,\"records\":[]}", "[]"}
BadBodies == {"<html>", ""}

HttpResponse(code, body) == [kind |-> "response", status |-> code, body |-> body]
TransportFailure(k) == [kind |-> k, status |-> 0, body |-> ""]

SuccessResponses == {HttpResponse(s, b) : s \in SuccessStatus, b \in JsonBodies \cup BadBodies}
ErrorResponses == {HttpResponse(s, "") : s \in RetryableStatus \cup ClientErrorStatus}
TransportFailures == {TransportFailure(k) : k \in TransportKinds}
Responses == SuccessResponses \cup ErrorResponses \cup TransportFailures

\* ---------------------------------------------------------------- errors
\* An exception object: its class, the status code it carries (0: none) and
\* the attempt that created it (0: not created by an attempt), which tells
\* two exceptions of the same class and code apart.
Error(kind, code, n) == [kind |-> kind, code |-> code, attempt |-> n]
NoError == Error("None", 0, 0)

\* Response.is_success / Response.raise_for_status
is_success(code) == code >= 200 /\ code <= 299

\* The exception attempt n ends with when it does not return a response:
\* raise_for_status() raises HTTPStatusError, the transport raises its own.
ErrorOf(r, n) ==
    IF r.kind = "response"
    THEN Error("HTTPStatusError", r.status, n)
    ELSE Error(r.kind, 0, n)

\* Variant: every body is taken for valid JSON.
json_valid_any(body) == TRUE

\* Variant: the body text is returned unparsed (response.text).
json_loads_text(body) == [type |-> "text", count |-> 0, records |-> <<>>]

\* Response.json(): json.loads of the body text.
json_valid(body) == body \in JsonBodies
json_loads(body) ==
    CASE body = "{\"count\":0,\"records\":[]}" -> [type |-> "object", count |-> 0, records |-> <<>>]
      [] body = "[]" -> [type |-> "array", count |-> 0, records |-> <<>>]
      [] OTHER -> [type |-> "invalid", count |-> 0, records |-> <<>>]
NoValue == [type |-> "none", count |-> 0, records |-> <<>>]

\* ----------------------------------------------------------------- state
VARIABLES
    max_retries,     \* self.max_retries
    retry_delay,     \* self.retry_delay
    client,          \* self.client: 0 is None, n > 0 the n-th httpx.AsyncClient
    created,         \* number of httpx.AsyncClient objects constructed so far
    pc,              \* per call: "idle", "awaiting", "sleeping", "returned", "raised"
    args,            \* per call: the params argument as the caller passed it
    callerDict,      \* per call: the caller's params object as it is now
    kwargs,          \* per call: method and keyword arguments of every attempt
    bound,           \* per call: the AsyncClient request_method is bound to
    retries,         \* per call: local variable retries
    last_exception,  \* per call: local variable last_exception
    sent,            \* per call: the attempts issued, in order
    responses,       \* per call: what each finished attempt ended with
    sleeps,          \* per call: the delays passed to asyncio.sleep, in order
    raised,          \* per call: the exception the call raised to its caller
    returned,        \* per call: the value the call returned to its caller
    mandiArgs,       \* per call: the arguments of get_mandi_prices, if it was the entry
    cancelled,       \* per call: the caller cancelled the call (Task.cancel())
    released,        \* per AsyncClient: how many times aclose() completed on it
    upc,             \* the lifecycle caller: "ready", or inside "close" / "aexit"
    closing,         \* the AsyncClient whose aclose() the lifecycle caller awaits
    lifeOp,          \* the lifecycle operation that completed last
    scope,           \* the async-with scope: "none", "inside", "exited"
    redis_instance,  \* RedisManager._instance: 0 is None, n > 0 the n-th manager object
    last_setup,      \* the handshake of the operation called last: "none", "ok", "failed"
    redis_manager,   \* a RedisManager() call has returned the manager to its caller
    redis_client,    \* RedisManager._client: 0 is None, 1 a redis.Redis object
    decode_responses, \* settings.REDIS_DECODE_RESPONSES
    cache_expiration, \* settings.REDIS_CACHE_EXPIRATION
    backend,         \* the Redis server: "up", "refused", "timeout", "error"
    store,           \* the Redis database: per key its entry
    rop,             \* the RedisManager operation called last, with its arguments
    rres,            \* what that operation returned or raised
    redis_created,   \* number of redis.Redis objects constructed by the threads
    tpc,             \* per thread: where it stands in exists() and the property client
    tmine,           \* per thread: the redis.Redis object its _setup_redis_client made
    tping,           \* per thread: the object whose ping() it is blocked in
    tused,           \* per thread: the object the property client returned to it
    tres             \* per thread: what its exists() returned or raised

clientVars == <<max_retries, retry_delay, client, created>>
callVars == <<pc, args, callerDict, kwargs, bound, retries, last_exception,
              sent, responses, sleeps, raised, returned, mandiArgs, cancelled>>
lifeVars == <<released, upc, closing, lifeOp, scope>>
threadVars == <<redis_created, tpc, tmine, tping, tused, tres>>
redisVars == <<redis_instance, redis_manager, redis_client, decode_responses,
               cache_expiration, backend, store, rop, rres, last_setup, threadVars>>
vars == <<max_retries, retry_delay, client, created, pc, args, callerDict, kwargs,
          bound, retries, last_exception, sent, responses, sleeps, raised, returned,
          mandiArgs, cancelled, released, upc, closing, lifeOp, scope,
          redis_instance, redis_manager, redis_client, decode_responses,
          cache_expiration, backend, store, rop, rres, last_setup,
          redis_created, tpc, tmine, tping, tused, tres>>

\* ------------------------------------------------- RedisManager: the values
\* A Python value is its type and its text: for str and bytes the characters,
\* for the other types the JSON text json.dumps gives (if it gives one).
Py(t, x) == [type |-> t, text |-> x]
PyNone == Py("NoneType", "null")
PyTrue == Py("bool", "true")
PyFalse == Py("bool", "false")
PyInt5 == Py("int", "5")
PyDict == Py("dict", "{\"a\": 1}")
PyList == Py("list", "[1]")
PyStrAbc == Py("str", "abc")
PyStrJson == Py("str", "{\"a\": 1}")
PyStrBrace == Py("str", "{oops")
PyStrDefault == Py("str", "default")
PyBytesAbc == Py("bytes", "abc")
\* An object json.dumps has no encoding for, and a dict holding one.
PyObject == Py("object", "<object>")
PyDictObject == Py("dict", "{\"a\": <object>}")

\* The values given to set and to set_many.
CacheValues == {PyDict, PyStrAbc, PyObject}
RoundTripValues ==
    {PyDict, PyList, PyInt5, PyTrue, PyNone, PyStrAbc, PyStrJson, PyStrBrace,
     PyBytesAbc, PyDictObject}
Defaults == {PyNone, PyStrDefault}
Keys == {"k1", "k2"}
EmptyMap == [k \in {} |-> PyNone]
Mappings(V) == UNION { [K -> V] : K \in SUBSET Keys }
\* The mappings given to set_many: empty, one key, two keys, and one holding
\* a value that cannot be serialized.
CacheMappings ==
    { EmptyMap,
      [k \in {"k1"} |-> PyDict],
      [k \in Keys |-> IF k = "k1" THEN PyDict ELSE PyStrAbc],
      [k \in Keys |-> IF k = "k1" THEN PyDict ELSE PyObject] }

\* The expiration argument: None, or a number of seconds.
NoneExp == 0
OneSecond == 1
Expirations == {NoneExp, OneSecond}

\* An entry of the Redis database.  An absent key remembers why it is absent.
Absent(why) == [present |-> FALSE, text |-> "", ttl |-> 0, why |-> why]
Entry(text, ttl) == [present |-> TRUE, text |-> text, ttl |-> ttl, why |-> "set"]

Backends == {"up", "refused", "timeout", "error"}

NoOp == [name |-> "none", key |-> "", value |-> PyNone, default |-> PyNone,
         mapping |-> EmptyMap, keys |-> {}, expiration |-> NoneExp, parts |-> <<>>]
Op(n, k, v, d, m, ks) ==
    [name |-> n, key |-> k, value |-> v, default |-> d, mapping |-> m, keys |-> ks,
     expiration |-> NoneExp, parts |-> <<>>]
NoResult == [raised |-> "none", value |-> PyNone, many |-> EmptyMap]

\* The threads that call the RedisManager at the same time.
Threads == {1, 2}

\* No thread is inside an operation of the RedisManager.
ThreadsIdle ==
    /\ redis_created = 0
    /\ tpc = [t \in Threads |-> "idle"]
    /\ tmine = [t \in Threads |-> 0]
    /\ tping = [t \in Threads |-> 0]
    /\ tused = [t \in Threads |-> 0]
    /\ tres = [t \in Threads |-> "none"]

\* The RedisManager is not part of the behaviour.
RedisUnused ==
    /\ redis_instance = 0
    /\ redis_manager = FALSE
    /\ redis_client = 0
    /\ decode_responses = TRUE
    /\ cache_expiration = 1
    /\ backend = "up"
    /\ store = [k \in Keys |-> Absent("never")]
    /\ rop = NoOp
    /\ rres = NoResult
    /\ last_setup = "none"
    /\ ThreadsIdle

NoMandiArgs ==
    [used |-> FALSE, format |-> "", offset |-> 0, limit |-> 0, state |-> None,
     district |-> None, market |-> None, commodity |-> None, variety |-> None,
     grade |-> None]
NoKwargs == [method |-> "none", params |-> EmptyDict, json |-> "absent"]

\* DataGovClient.__init__ and no call started.
InitClient ==
    /\ client = 0
    /\ created = 0
    /\ pc = [c \in Calls |-> "idle"]
    /\ args = [c \in Calls |-> NoneParams]
    /\ callerDict = [c \in Calls |-> NoneParams]
    /\ kwargs = [c \in Calls |-> NoKwargs]
    /\ bound = [c \in Calls |-> 0]
    /\ retries = [c \in Calls |-> 0]
    /\ last_exception = [c \in Calls |-> NoError]
    /\ sent = [c \in Calls |-> <<>>]
    /\ responses = [c \in Calls |-> <<>>]
    /\ sleeps = [c \in Calls |-> <<>>]
    /\ raised = [c \in Calls |-> NoError]
    /\ returned = [c \in Calls |-> NoValue]
    /\ mandiArgs = [c \in Calls |-> NoMandiArgs]
    /\ cancelled = [c \in Calls |-> FALSE]
    /\ released = [i \in 1..MaxClients |-> 0]
    /\ upc = "ready"
    /\ closing = 0
    /\ lifeOp = "none"
    /\ scope = "none"

InitCalls ==
    /\ InitClient
    /\ RedisUnused

Init ==
    /\ max_retries \in (-1)..MaxRetries
    /\ retry_delay \in 1..MaxRetryDelay
    /\ InitCalls

\* ------------------------------------------------------- DataGovClient code
\* Variant: a caller-supplied 'api-key' is kept (params.setdefault).
add_api_key_keep_existing(p) ==
    IF Truthy(p) /\ "api-key" \in DOMAIN p.dict
    THEN p.dict
    ELSE DictSet(IF Truthy(p) THEN p.dict ELSE EmptyDict, "api-key", api_key)

\* _add_api_key: params = params or {}; params['api-key'] = self.api_key
add_api_key(p) == DictSet(IF Truthy(p) THEN p.dict ELSE EmptyDict, "api-key", api_key)

\* The caller's params object after _add_api_key ran on it: "params or {}" is
\* the caller's own dict when that is non-empty, and a fresh dict otherwise.
caller_dict_after(p) == IF Truthy(p) THEN Dict(add_api_key(p)) ELSE p

\* Variant: the loop test is strict (retries < self.max_retries).
loop_continues_strict(r, N) == r < N

\* while retries <= self.max_retries
loop_continues(r, N) == r <= N

\* Variant: the budget test is off by one (retries >= self.max_retries).
budget_spent_early(r, N) == r >= N

\* if retries > self.max_retries
budget_spent(r, N) == r > N

\* Variant: the status test is missing, every caught error is retried.
is_retryable_unconditional(e) == TRUE

\* Variant: only status errors of the retryable set are retried.
is_retryable_status_only(e) == e.kind = "HTTPStatusError" /\ e.code \in RetryableStatus

\* Variant: the status test applies to the first attempt only, an error of a
\* later attempt is always retried.
is_retryable_after_first(e) ==
    e.attempt > 1 \/ ~(e.kind = "HTTPStatusError" /\ e.code \notin RetryableStatus)

\* The negation of: isinstance(e, httpx.HTTPStatusError) and
\* e.response.status_code not in (408, 429, 500, 502, 503, 504)
is_retryable(e) == ~(e.kind = "HTTPStatusError" /\ e.code \notin RetryableStatus)

\* Variant: the exponent is retries instead of retries - 1.
backoff_delay_next_power(d, r) == d * 2^r

\* delay = self.retry_delay * (2 ** (retries - 1))
backoff_delay(d, r) == d * 2^(r - 1)

\* Variant: the first exception of the call is raised instead of the current one.
reraise_first(c, e) ==
    IF responses[c] # <<>> THEN ErrorOf(responses[c][1], 1) ELSE e

\* Variant: the exception is wrapped in an error of another kind.
reraise_wrapped(c, e) == Error("RetriesExhausted", e.code, e.attempt)

\* Variant: "retries = 1" in place of "retries += 1".
retries_restart(c) == 0

\* Variant: the counter is an attribute of the client, shared by all its calls.
retries_shared(c) == retries[1] + retries[2]

\* The local variable retries of call c, as "retries += 1" reads it.
retries_of(c) == retries[c]

\* A bare "raise" in the except block re-raises the exception being handled.
reraise(c, e) == e

\* Variant: the "is None" test is missing, a new AsyncClient is made every time.
ensure_client_always_new(cl, n) == n + 1

\* _ensure_client / __aenter__: if self.client is None: self.client =
\* httpx.AsyncClient().  cl is self.client, n the number of AsyncClient objects
\* made so far; the result is self.client afterwards.
ensure_client(cl, n) == IF cl = 0 THEN n + 1 ELSE cl

\* The head of the while loop, reached from the start of the call and after
\* every sleep, with retries = r and last_exception = le: either the next
\* attempt is issued (await request_method(url, **kwargs)) or the loop is
\* left and the code after it raises.  res is the AsyncClient whose method
\* request_method was bound to before the loop; when that AsyncClient has been
\* closed since, what the call does is up to the httpx in use: it raises
\* RuntimeError, which the except clause does not catch, or it goes to the
\* closed transport like any other attempt.
LoopHead(c, r, le, kw, res) ==
    IF loop_continues(r, max_retries)
    THEN /\ sent' = [sent EXCEPT ![c] = Append(@, [method |-> kw.method,
                                                   params |-> kw.params,
                                                   json |-> kw.json,
                                                   resource |-> res])]
         /\ \/ /\ pc' = [pc EXCEPT ![c] = "awaiting"]
               /\ UNCHANGED raised
            \/ /\ released[res] > 0
               /\ pc' = [pc EXCEPT ![c] = "raised"]
               /\ raised' = [raised EXCEPT ![c] =
                                Error("RuntimeError", 0, Len(sent[c]) + 1)]
    ELSE /\ pc' = [pc EXCEPT ![c] = "raised"]
         /\ raised' = [raised EXCEPT ![c] =
                          IF le # NoError THEN le ELSE Error("RequestError", 0, 0)]
         /\ UNCHANGED sent

\* _make_request_with_retry up to its first suspension point: _ensure_client,
\* request_method = getattr(self.client, method), retries = 0,
\* last_exception = None, the first test of the loop and the first attempt.
make_request_with_retry(c, m, q, j) ==
    LET cl == ensure_client(client, created)
        kw == [method |-> m, params |-> q, json |-> j]
    IN  /\ cl <= MaxClients
        /\ client' = cl
        /\ created' = IF cl > created THEN cl ELSE created
        /\ bound' = [bound EXCEPT ![c] = cl]
        /\ retries' = [retries EXCEPT ![c] = 0]
        /\ last_exception' = [last_exception EXCEPT ![c] = NoError]
        /\ kwargs' = [kwargs EXCEPT ![c] = kw]
        /\ LoopHead(c, 0, NoError, kw, cl)

\* The common body of get, post, put and delete up to the first suspension
\* point: params = self._add_api_key(params), then the retrying primitive.
public_request(c, m, p, j) ==
    /\ pc[c] = "idle"
    /\ args' = [args EXCEPT ![c] = p]
    /\ callerDict' = [callerDict EXCEPT ![c] = caller_dict_after(p)]
    /\ make_request_with_retry(c, m, add_api_key(p), j)
    /\ UNCHANGED <<max_retries, retry_delay, responses, sleeps, returned, cancelled, lifeVars, redisVars>>

get(c) ==
    /\ \E p \in CallerParams : public_request(c, "get", p, "absent")
    /\ UNCHANGED mandiArgs

post(c) ==
    /\ \E p \in CallerParams, d \in CallerData : public_request(c, "post", p, d)
    /\ UNCHANGED mandiArgs

put(c) ==
    /\ \E p \in CallerParams, d \in CallerData : public_request(c, "put", p, d)
    /\ UNCHANGED mandiArgs

delete(c) ==
    /\ \E p \in CallerParams : public_request(c, "delete", p, "absent")
    /\ UNCHANGED mandiArgs

\* Variant: the clause is "except BaseException".
except_catches_all(e) == TRUE

\* except (httpx.HTTPError, httpx.NetworkError, httpx.TimeoutException) as e:
\* the status error of raise_for_status and the transport errors are
\* subclasses of httpx.HTTPError, asyncio.CancelledError is not.
except_catches(e) == e.kind \in {"HTTPStatusError"} \cup TransportKinds

\* The except block with e the exception caught, up to the raise that ends
\* the call or to await asyncio.sleep(delay).
ExceptBlock(c, e) ==
    LET r1 == retries_of(c) + 1
    IN  /\ last_exception' = [last_exception EXCEPT ![c] = e]
        /\ IF ~is_retryable(e)
           THEN /\ pc' = [pc EXCEPT ![c] = "raised"]
                /\ raised' = [raised EXCEPT ![c] = reraise(c, e)]
                /\ UNCHANGED <<retries, sleeps>>
           ELSE /\ retries' = [retries EXCEPT ![c] = r1]
                /\ IF budget_spent(r1, max_retries)
                   THEN /\ pc' = [pc EXCEPT ![c] = "raised"]
                        /\ raised' = [raised EXCEPT ![c] = reraise(c, e)]
                        /\ UNCHANGED sleeps
                   ELSE /\ pc' = [pc EXCEPT ![c] = "sleeping"]
                        /\ sleeps' = [sleeps EXCEPT ![c] =
                                         Append(@, backoff_delay(retry_delay, r1))]
                        /\ UNCHANGED raised

\* The attempt in flight ends with r, and the call runs to its next
\* suspension point or to its end: raise_for_status and return (then
\* response.json() in the public method), or the except block.
AttemptEnds(c, R) ==
    /\ pc[c] = "awaiting"
    /\ \E r \in R :
        LET n == Len(sent[c])
            e == ErrorOf(r, n)
        IN  /\ responses' = [responses EXCEPT ![c] = Append(@, r)]
            /\ IF r.kind = "response" /\ is_success(r.status)
               THEN /\ IF json_valid(r.body)
                       THEN /\ pc' = [pc EXCEPT ![c] = "returned"]
                            /\ returned' = [returned EXCEPT ![c] = json_loads(r.body)]
                            /\ UNCHANGED raised
                       ELSE /\ pc' = [pc EXCEPT ![c] = "raised"]
                            /\ raised' = [raised EXCEPT ![c] = Error("JSONDecodeError", 0, n)]
                            /\ UNCHANGED returned
                    /\ UNCHANGED <<retries, last_exception, sleeps>>
               ELSE /\ UNCHANGED returned
                    /\ ExceptBlock(c, e)
    /\ UNCHANGED <<clientVars, args, callerDict, kwargs, bound, sent, mandiArgs, cancelled, lifeVars, redisVars>>

\* asyncio.sleep(delay) returns and the loop goes round.
SleepEnds(c) ==
    /\ pc[c] = "sleeping"
    /\ LoopHead(c, retries[c], last_exception[c], kwargs[c], bound[c])
    /\ UNCHANGED <<clientVars, args, callerDict, kwargs, bound, retries, last_exception,
                   responses, sleeps, returned, mandiArgs, cancelled, lifeVars, redisVars>>

\* The caller cancels the call while it is suspended: asyncio raises
\* CancelledError at the await the call is suspended in.  At the await of the
\* request (inside try) the exception meets the except clause; at the await
\* of asyncio.sleep (inside the except block) nothing can catch it.
Cancel(c) ==
    /\ pc[c] \in {"awaiting", "sleeping"}
    /\ cancelled' = [cancelled EXCEPT ![c] = TRUE]
    /\ LET e == Error("CancelledError", 0, Len(sent[c]))
       IN  IF pc[c] = "awaiting" /\ except_catches(e)
           THEN ExceptBlock(c, e)
           ELSE /\ pc' = [pc EXCEPT ![c] = "raised"]
                /\ raised' = [raised EXCEPT ![c] = e]
                /\ UNCHANGED <<retries, last_exception, sleeps>>
    /\ UNCHANGED <<clientVars, args, callerDict, kwargs, bound, sent, responses,
                   returned, mandiArgs, lifeVars, redisVars>>

\* The retry specification: requests enter through get, and upstream may
\* answer every attempt with any response.
Next ==
    \E c \in SeqCalls :
        \/ get(c)
        \/ AttemptEnds(c, Responses)
        \/ SleepEnds(c)

Spec == Init /\ [][Next]_vars

\* The public-method specification: requests enter through get, post, put and
\* delete, and upstream answers from a smaller set of responses.
ApiResponses ==
    { HttpResponse(200, b) : b \in JsonBodies \cup BadBodies }
        \cup { HttpResponse(503, ""), HttpResponse(404, ""), TransportFailure("ReadTimeout") }

NextApi ==
    \E c \in SeqCalls :
        \/ get(c)
        \/ post(c)
        \/ put(c)
        \/ delete(c)
        \/ AttemptEnds(c, ApiResponses)
        \/ SleepEnds(c)

SpecApi == Init /\ [][NextApi]_vars

\* The concurrent specification: both call slots run requests through the one
\* client at the same time; a step is what one coroutine does between two
\* suspension points.
ConcResponses ==
    { HttpResponse(200, "{\"count\":0,\"records\":[]}"),
      HttpResponse(503, ""),
      HttpResponse(404, "") }

NextConc ==
    \E c \in Calls :
        \/ get(c)
        \/ AttemptEnds(c, ConcResponses)
        \/ SleepEnds(c)

SpecConc == Init /\ [][NextConc]_vars

\* The cancellation specification: the caller may cancel a call at any of
\* its suspension points.
NextCancel ==
    \E c \in SeqCalls :
        \/ get(c)
        \/ AttemptEnds(c, ConcResponses)
        \/ SleepEnds(c)
        \/ Cancel(c)

SpecCancel == Init /\ [][NextCancel]_vars

\* The termination specification.  Every attempt in flight ends: the
\* AsyncClient is made by httpx.AsyncClient() without a timeout argument, so
\* the library's default timeout ends an attempt that gets no response with a
\* timeout exception (ReadTimeout here); and asyncio.sleep(delay) returns
\* after its finite delay.  Hence weak fairness on both steps.
LiveResponses ==
    { HttpResponse(200, "{\"count\":0,\"records\":[]}"),
      HttpResponse(503, ""),
      HttpResponse(404, ""),
      TransportFailure("ReadTimeout") }

NextLive ==
    \E c \in SeqCalls :
        \/ get(c)
        \/ AttemptEnds(c, LiveResponses)
        \/ SleepEnds(c)

SpecLive ==
    /\ Init
    /\ [][NextLive]_vars
    /\ \A c \in SeqCalls : WF_vars(AttemptEnds(c, LiveResponses)) /\ WF_vars(SleepEnds(c))

\* The client as src/api/routes/mandi.py constructs it: DataGovClient().
InitMandi ==
    /\ max_retries = DefaultMaxRetries
    /\ retry_delay = DefaultRetryDelay
    /\ InitCalls

\* ---------------------------------------------------------------- lifecycle
\* Variant: __aexit__ closes only when the scope ended without an exception.
aexit_closes_on_success(cl, exc) == cl # 0 /\ ~exc

\* __aexit__(exc_type, exc_val, exc_tb): if self.client is not None
aexit_closes(cl, exc) == cl # 0

\* close: if self.client is not None
close_closes(cl) == cl # 0

\* Variant: self.client is left as it is after aclose().
client_after_close_kept(cl) == cl

\* self.client = None, after await self.client.aclose()
client_after_close(cl) == 0

\* No call of the client is between its start and its end.
NoCallRunning == \A c \in Calls : pc[c] \notin {"awaiting", "sleeping"}

\* An exception left the body of the async-with scope.
ScopeRaised == \E c \in Calls : pc[c] = "raised"

\* async with DataGovClient() as client: __aenter__
aenter ==
    /\ upc = "ready"
    /\ ensure_client(client, created) <= MaxClients
    /\ client' = ensure_client(client, created)
    /\ created' = IF client' > created THEN client' ELSE created
    /\ lifeOp' = "aenter"
    /\ scope' = "inside"
    /\ UNCHANGED <<max_retries, retry_delay, callVars, redisVars, released, upc, closing>>

\* await client._ensure_client(), called on its own
EnsureClient ==
    /\ upc = "ready"
    /\ ensure_client(client, created) <= MaxClients
    /\ client' = ensure_client(client, created)
    /\ created' = IF client' > created THEN client' ELSE created
    /\ lifeOp' = "ensure"
    /\ UNCHANGED <<max_retries, retry_delay, callVars, redisVars, released, upc, closing, scope>>

\* close() up to its suspension point: either await self.client.aclose()
\* starts, or there is nothing to close and close() returns.
close ==
    /\ upc = "ready"
    /\ IF close_closes(client)
       THEN /\ upc' = "close"
            /\ closing' = client
            /\ UNCHANGED lifeOp
       ELSE /\ lifeOp' = "close"
            /\ UNCHANGED <<upc, closing>>
    /\ UNCHANGED <<clientVars, callVars, redisVars, released, scope>>

\* The end of the async-with scope, __aexit__, up to its suspension point.
aexit ==
    /\ upc = "ready"
    /\ scope = "inside"
    /\ IF aexit_closes(client, ScopeRaised)
       THEN /\ upc' = "aexit"
            /\ closing' = client
            /\ UNCHANGED <<lifeOp, scope>>
       ELSE /\ lifeOp' = "aexit"
            /\ scope' = "exited"
            /\ UNCHANGED <<upc, closing>>
    /\ UNCHANGED <<clientVars, callVars, redisVars, released>>

\* await self.client.aclose() returns in close() or __aexit__, and
\* self.client = None follows.
AcloseEnds ==
    /\ upc \in {"close", "aexit"}
    /\ released' = [released EXCEPT ![closing] = @ + 1]
    /\ client' = client_after_close(client)
    /\ lifeOp' = upc
    /\ scope' = IF upc = "aexit" THEN "exited" ELSE scope
    /\ upc' = "ready"
    /\ UNCHANGED <<max_retries, retry_delay, created, callVars, redisVars, closing>>

\* The scope specification, the usage of src/api/routes/mandi.py: the client
\* is entered, requests are made one after the other in the body of the
\* scope, and the scope is left when the body ends, normally or by the
\* exception of a request.
NextScope ==
    \/ scope = "none" /\ aenter
    \/ NoCallRunning /\ aexit
    \/ AcloseEnds
    \/ \E c \in Calls :
        \/ scope = "inside" /\ upc = "ready" /\ NoCallRunning /\ ~ScopeRaised /\ get(c)
        \/ AttemptEnds(c, ConcResponses)
        \/ SleepEnds(c)

SpecScope == Init /\ [][NextScope]_vars

\* The lifecycle specification: one caller makes any sequence of __aenter__,
\* _ensure_client, close, __aexit__ and requests, each awaited to its end
\* before the next starts.
NextLife ==
    \/ NoCallRunning /\ aenter
    \/ NoCallRunning /\ EnsureClient
    \/ NoCallRunning /\ close
    \/ NoCallRunning /\ aexit
    \/ AcloseEnds
    \/ \E c \in Calls :
        \/ upc = "ready" /\ NoCallRunning /\ get(c)
        \/ AttemptEnds(c, ConcResponses)
        \/ SleepEnds(c)

SpecLife == InitMandi /\ [][NextLife]_vars

\* The concurrent-close specification: requests of both call slots, close()
\* and the async-with scope run through the one default client in any
\* interleaving; nothing in DataGovClient makes close() wait for the calls in
\* flight or a call wait for a close() in flight.
NextClose ==
    \/ scope = "none" /\ aenter
    \/ close
    \/ aexit
    \/ AcloseEnds
    \/ \E c \in Calls :
        \/ get(c)
        \/ AttemptEnds(c, ConcResponses)
        \/ SleepEnds(c)

SpecClose == InitMandi /\ [][NextClose]_vars

\* --------------------------------------------------------- get_mandi_prices
\* Variant: the filter test is "is not None", which lets "" through.
str_truthy_not_none(s) == s # None

\* bool(s) for an optional str: None and "" are falsy.
str_truthy(s) == s # None /\ s # ""

\* "if <filter>: params[key] = <filter>"
add_filter(d, key, value) == IF str_truthy(value) THEN DictSet(d, key, value) ELSE d

\* The params dict get_mandi_prices builds from its arguments.
mandi_params(a) ==
    LET p0 == ("format" :> a.format) @@ ("offset" :> a.offset) @@ ("limit" :> a.limit)
        p1 == add_filter(p0, "filters[state.keyword]", a.state)
        p2 == add_filter(p1, "filters[district]", a.district)
        p3 == add_filter(p2, "filters[market]", a.market)
        p4 == add_filter(p3, "filters[commodity]", a.commodity)
        p5 == add_filter(p4, "filters[variety]", a.variety)
    IN  add_filter(p5, "filters[grade]", a.grade)

\* The arguments callers pass to get_mandi_prices.
FilterValues == {None, "", "Punjab"}
Formats == {"json", "xml"}
Offsets == {DefaultOffset, 20}
Limits == {5, DefaultLimit}
MandiArgs ==
    [used : {TRUE}, format : Formats, offset : Offsets, limit : Limits,
     state : FilterValues, district : FilterValues, market : FilterValues,
     commodity : FilterValues, variety : FilterValues, grade : FilterValues]

\* get_mandi_prices: build params, then "return await self.get(endpoint, params)".
get_mandi_prices(c) ==
    /\ pc[c] = "idle"
    /\ \E a \in MandiArgs :
        /\ mandiArgs' = [mandiArgs EXCEPT ![c] = a]
        /\ public_request(c, "get", Dict(mandi_params(a)), "absent")

\* The responses the get_mandi_prices specification lets upstream give.
MandiResponses ==
    { HttpResponse(200, "{\"count\":0,\"records\":[]}"),
      HttpResponse(503, ""),
      HttpResponse(404, "") }

NextMandi ==
    \E c \in SeqCalls :
        \/ get_mandi_prices(c)
        \/ AttemptEnds(c, MandiResponses)
        \/ SleepEnds(c)

SpecMandi == InitMandi /\ [][NextMandi]_vars

\* ------------------------------------------------------- RedisManager code
\* json.dumps(value), called on values that are neither str nor bytes: the
\* JSON text of the value, or TypeError when the value has none.
Unserializable == {PyObject, PyDictObject}
json_serializable(v) == v \notin Unserializable
json_dumps(v) == v.text

\* json.loads(value) on a str: the value the text denotes, or JSONDecodeError.
JsonTexts == {PyDict.text, PyList.text, PyInt5.text, PyTrue.text, PyFalse.text, PyNone.text}
redis_json_loads(text) ==
    CASE text = PyDict.text -> PyDict
      [] text = PyList.text -> PyList
      [] text = PyInt5.text -> PyInt5
      [] text = PyTrue.text -> PyTrue
      [] text = PyFalse.text -> PyFalse
      [] text = PyNone.text -> PyNone
      [] OTHER -> Py("invalid", text)

\* isinstance(value, str) and (value.startswith('{') or value.startswith('['))
StartsWithBraceOrBracket == {PyDict.text, PyList.text, PyStrBrace.text, PyDictObject.text}
\* Variant: every str is taken to look like JSON.
looks_like_json_any_str(value) == value.type = "str"

looks_like_json(value) == value.type = "str" /\ value.text \in StartsWithBraceOrBracket

\* What the redis client returns for stored text: str when decode_responses
\* is set, bytes otherwise.
reply(text, dr) == IF dr THEN Py("str", text) ELSE Py("bytes", text)

\* get and get_many, from the reply on: json.loads if the value looks like
\* JSON, and the value itself if it does not or if json.loads fails.
deserialize(value) ==
    IF looks_like_json(value) /\ value.text \in JsonTexts
    THEN redis_json_loads(value.text)
    ELSE value

\* Variant: the command removes every key.
del_key_all(st, k) == [j \in Keys |-> IF st[j].present THEN Absent("deleted") ELSE st[j]]

\* The database after self.client.delete(key) on a stored key.
del_key(st, k) == [st EXCEPT ![k] = Absent("deleted")]

\* Variant: every requested key is put into the result.
found_keys_all(ks, st) == ks

\* get_many: "if values[i] is not None", the requested keys redis has a
\* value for.
found_keys(ks, st) == { k \in ks : st[k].present }

\* Variant: None is returned for an absent key, whatever the default.
get_result_none(entry, default, dr) ==
    IF ~entry.present THEN PyNone ELSE deserialize(reply(entry.text, dr))

\* get: if value is None: return default; else the deserialized reply.
get_result(entry, default, dr) ==
    IF ~entry.present THEN default ELSE deserialize(reply(entry.text, dr))

\* The exception self._client.ping() ends with, by the state of the server:
\* redis.ConnectionError when the connection is refused, redis.TimeoutError
\* when the server does not answer.
ping_error(b) ==
    CASE b = "refused" -> "redis.ConnectionError"
      [] b = "timeout" -> "redis.TimeoutError"
      [] OTHER -> "none"

\* The exception a store command ends with: as ping, and redis.ResponseError
\* when the server answers the command with an error.
command_error(b) ==
    CASE b = "refused" -> "redis.ConnectionError"
      [] b = "timeout" -> "redis.TimeoutError"
      [] b = "error" -> "redis.ResponseError"
      [] OTHER -> "none"

\* _setup_redis_client: except redis.ConnectionError
setup_catches(kind) == kind = "redis.ConnectionError"

\* The operations: except (redis.RedisError, ConnectionError); the three
\* redis exceptions are subclasses of redis.RedisError, TypeError is not.
op_catches(kind) ==
    kind \in {"redis.ConnectionError", "redis.TimeoutError", "redis.ResponseError",
              "ConnectionError"}

\* _setup_redis_client with the server in state b: self._client afterwards
\* and the exception that leaves the method.  self._client is assigned before
\* ping(), and reset to None only in the except block.
setup_redis_client(b) ==
    LET pe == ping_error(b)
    IN  IF pe = "none" THEN [client |-> 1, err |-> "none"]
        ELSE IF setup_catches(pe) THEN [client |-> 0, err |-> "none"]
        ELSE [client |-> 1, err |-> pe]

\* Variant: the property does not set up, it raises when self._client is None.
client_property_no_setup(cl, b) ==
    IF cl # 0 THEN [client |-> cl, err |-> "none"]
    ELSE [client |-> 0, err |-> "ConnectionError"]

\* The property client: set up when self._client is None, and the builtin
\* ConnectionError when it is still None afterwards.
client_property(cl, b) ==
    IF cl # 0 THEN [client |-> cl, err |-> "none"]
    ELSE LET su == setup_redis_client(b)
         IN  IF su.err = "none" /\ su.client = 0
             THEN [client |-> 0, err |-> "ConnectionError"]
             ELSE su

\* What the property client does about the handshake: nothing when
\* self._client is set, otherwise _setup_redis_client and its ping().
handshake(cl, b) ==
    IF cl # 0 THEN "none" ELSE IF ping_error(b) = "none" THEN "ok" ELSE "failed"

\* Variant: __new__ makes a new object at every call.
new_instance_always(inst) == inst + 1

\* __new__: if cls._instance is None: cls._instance = super().__new__(cls)
new_instance(inst) == IF inst = 0 THEN 1 ELSE inst

\* Variant: the expiration argument is passed on as it is, None included.
effective_expiration_as_given(ex, dflt) == ex

\* if expiration is None: expiration = settings.REDIS_CACHE_EXPIRATION
effective_expiration(ex, dflt) == IF ex = NoneExp THEN dflt ELSE ex

\* The exception of "self.client.<command>(...)": that of the property, or
\* else that of the command.
command_outcome(cl, b) ==
    LET acq == client_property(cl, b)
    IN  [client |-> acq.client,
         err |-> IF acq.err # "none" THEN acq.err ELSE command_error(b)]

\* The end of an operation whose try block ended with err: the value of the
\* try block, the value of the except block, or the exception itself.
Result(err, ok, okMany, fail, failMany) ==
    IF err = "none" THEN [raised |-> "none", value |-> ok, many |-> okMany]
    ELSE IF op_catches(err) THEN [raised |-> "none", value |-> fail, many |-> failMany]
    ELSE [raised |-> err, value |-> PyNone, many |-> EmptyMap]

ClientFrame == UNCHANGED <<clientVars, callVars, lifeVars, threadVars>>
ConfigFrame == UNCHANGED <<decode_responses, cache_expiration, backend>>

\* RedisManager(): __new__ and __init__.
RedisManager ==
    LET inst == new_instance(redis_instance)
        cl0 == IF inst = redis_instance THEN redis_client ELSE 0
        su == IF cl0 = 0 THEN setup_redis_client(backend)
                         ELSE [client |-> cl0, err |-> "none"]
    IN  /\ redis_instance' = inst
        /\ redis_client' = su.client
        /\ last_setup' = handshake(cl0, backend)
        /\ redis_manager' = (redis_manager \/ su.err = "none")
        /\ rop' = Op("RedisManager", "", PyNone, PyNone, EmptyMap, {})
        /\ rres' = [raised |-> su.err, value |-> PyNone, many |-> EmptyMap]
        /\ UNCHANGED store
        /\ ConfigFrame /\ ClientFrame

\* await redis_manager.close()
redis_close ==
    /\ redis_manager
    /\ redis_client' = 0
    /\ rop' = Op("close", "", PyNone, PyNone, EmptyMap, {})
    /\ rres' = NoResult
    /\ last_setup' = "none"
    /\ UNCHANGED <<redis_instance, redis_manager, store>>
    /\ ConfigFrame /\ ClientFrame

\* set(key, value, expiration)
redis_set(V) ==
    /\ redis_manager
    /\ \E k \in Keys, v \in V, ex \in Expirations :
        LET dumps == v.type \notin {"str", "bytes"}
            terr == IF dumps /\ ~json_serializable(v) THEN "TypeError" ELSE "none"
            text == IF dumps THEN json_dumps(v) ELSE v.text
            expiration == effective_expiration(ex, cache_expiration)
            out == IF terr # "none" THEN [client |-> redis_client, err |-> terr]
                                    ELSE command_outcome(redis_client, backend)
        IN  /\ redis_client' = out.client
            /\ store' = IF out.err = "none"
                        THEN [store EXCEPT ![k] = Entry(text, expiration)]
                        ELSE store
            /\ rop' = [Op("set", k, v, PyNone, EmptyMap, {}) EXCEPT !.expiration = ex]
            /\ last_setup' = IF terr # "none" THEN "none"
                                             ELSE handshake(redis_client, backend)
            /\ rres' = Result(out.err, PyTrue, EmptyMap, PyFalse, EmptyMap)
    /\ UNCHANGED <<redis_instance, redis_manager>>
    /\ ConfigFrame /\ ClientFrame

\* get(key, default)
redis_get ==
    /\ redis_manager
    /\ \E k \in Keys, d \in Defaults :
        LET out == command_outcome(redis_client, backend)
        IN  /\ redis_client' = out.client
            /\ last_setup' = handshake(redis_client, backend)
            /\ rop' = Op("get", k, PyNone, d, EmptyMap, {})
            /\ rres' = Result(out.err, get_result(store[k], d, decode_responses),
                              EmptyMap, d, EmptyMap)
    /\ UNCHANGED <<redis_instance, redis_manager, store>>
    /\ ConfigFrame /\ ClientFrame

\* delete(key)
redis_delete ==
    /\ redis_manager
    /\ \E k \in Keys :
        LET out == command_outcome(redis_client, backend)
        IN  /\ redis_client' = out.client
            /\ last_setup' = handshake(redis_client, backend)
            /\ store' = IF out.err = "none" /\ store[k].present
                        THEN del_key(store, k)
                        ELSE store
            /\ rop' = Op("delete", k, PyNone, PyNone, EmptyMap, {})
            /\ rres' = Result(out.err, IF store[k].present THEN PyTrue ELSE PyFalse,
                              EmptyMap, PyFalse, EmptyMap)
    /\ UNCHANGED <<redis_instance, redis_manager>>
    /\ ConfigFrame /\ ClientFrame

\* exists(key)
redis_exists ==
    /\ redis_manager
    /\ \E k \in Keys :
        LET out == command_outcome(redis_client, backend)
        IN  /\ redis_client' = out.client
            /\ last_setup' = handshake(redis_client, backend)
            /\ rop' = Op("exists", k, PyNone, PyNone, EmptyMap, {})
            /\ rres' = Result(out.err, IF store[k].present THEN PyTrue ELSE PyFalse,
                              EmptyMap, PyFalse, EmptyMap)
    /\ UNCHANGED <<redis_instance, redis_manager, store>>
    /\ ConfigFrame /\ ClientFrame

\* flush_all()
flush_all ==
    /\ redis_manager
    /\ LET out == command_outcome(redis_client, backend)
       IN  /\ redis_client' = out.client
           /\ last_setup' = handshake(redis_client, backend)
           /\ store' = IF out.err = "none"
                       THEN [k \in Keys |-> IF store[k].present THEN Absent("flushed")
                                                                ELSE store[k]]
                       ELSE store
           /\ rop' = Op("flush_all", "", PyNone, PyNone, EmptyMap, {})
           /\ rres' = Result(out.err, PyTrue, EmptyMap, PyFalse, EmptyMap)
    /\ UNCHANGED <<redis_instance, redis_manager>>
    /\ ConfigFrame /\ ClientFrame

\* set_many(mapping, expiration): every value is serialized first, then one
\* pipeline sets all keys and is executed.
set_many(M) ==
    /\ redis_manager
    /\ \E m \in M, ex \in Expirations :
        LET dumps(v) == v.type \notin {"str", "bytes"}
            terr == IF \E k \in DOMAIN m : dumps(m[k]) /\ ~json_serializable(m[k])
                    THEN "TypeError" ELSE "none"
            text(v) == IF dumps(v) THEN json_dumps(v) ELSE v.text
            expiration == effective_expiration(ex, cache_expiration)
            out == IF terr # "none" THEN [client |-> redis_client, err |-> terr]
                                    ELSE command_outcome(redis_client, backend)
        IN  /\ redis_client' = out.client
            /\ store' = IF out.err = "none"
                        THEN [k \in Keys |-> IF k \in DOMAIN m
                                             THEN Entry(text(m[k]), expiration)
                                             ELSE store[k]]
                        ELSE store
            /\ rop' = [Op("set_many", "", PyNone, PyNone, m, {}) EXCEPT !.expiration = ex]
            /\ last_setup' = IF terr # "none" THEN "none"
                                             ELSE handshake(redis_client, backend)
            /\ rres' = Result(out.err, PyTrue, EmptyMap, PyFalse, EmptyMap)
    /\ UNCHANGED <<redis_instance, redis_manager>>
    /\ ConfigFrame /\ ClientFrame

\* get_many(keys)
get_many ==
    /\ redis_manager
    /\ \E ks \in SUBSET Keys :
        LET out == command_outcome(redis_client, backend)
            found == found_keys(ks, store)
        IN  /\ redis_client' = out.client
            /\ last_setup' = handshake(redis_client, backend)
            /\ rop' = Op("get_many", "", PyNone, PyNone, EmptyMap, ks)
            /\ rres' = Result(out.err, PyNone,
                              [k \in found |-> deserialize(reply(store[k].text,
                                                               decode_responses))],
                              PyNone, EmptyMap)
    /\ UNCHANGED <<redis_instance, redis_manager, store>>
    /\ ConfigFrame /\ ClientFrame

\* One second passes in the Redis server: every time to live goes down by
\* one, and a key whose time to live is over is gone.
TimePasses ==
    /\ \E k \in Keys : store[k].present
    /\ store' = [k \in Keys |->
                    IF ~store[k].present THEN store[k]
                    ELSE IF store[k].ttl = NoneExp THEN store[k]
                    ELSE IF store[k].ttl = 1 THEN Absent("expired")
                    ELSE [store[k] EXCEPT !.ttl = @ - 1]]
    /\ UNCHANGED <<redis_instance, redis_manager, redis_client, decode_responses,
                   cache_expiration, backend, rop, rres, last_setup>>
    /\ ClientFrame

\* The Redis server becomes reachable, unreachable or failing.
BackendChanges ==
    /\ \E b \in Backends \ {backend} : backend' = b
    /\ UNCHANGED <<redis_instance, redis_manager, redis_client, decode_responses,
                   cache_expiration, store, rop, rres, last_setup>>
    /\ ClientFrame

\* The process starts: the module-level "redis_manager = RedisManager()" has
\* not run yet, the settings are any, the server is in any state.
InitRedis ==
    /\ max_retries = DefaultMaxRetries
    /\ retry_delay = DefaultRetryDelay
    /\ InitClient
    /\ redis_instance = 0
    /\ redis_manager = FALSE
    /\ redis_client = 0
    /\ decode_responses \in BOOLEAN
    /\ cache_expiration \in 1..MaxTtl
    /\ backend \in Backends
    /\ store = [k \in Keys |-> Absent("never")]
    /\ rop = NoOp
    /\ rres = NoResult
    /\ last_setup = "none"
    /\ ThreadsIdle

\* The cache specification: every operation of the manager, time and outages.
NextRedis ==
    \/ RedisManager
    \/ redis_close
    \/ redis_set(CacheValues)
    \/ redis_get
    \/ redis_delete
    \/ redis_exists
    \/ flush_all
    \/ set_many(CacheMappings)
    \/ get_many
    \/ TimePasses
    \/ BackendChanges

SpecRedis == InitRedis /\ [][NextRedis]_vars

\* The arguments of build_key: str, None and int values, some of them falsy.
PyStrA == Py("str", "a")
PyStrB == Py("str", "b")
PyStrEmpty == Py("str", "")
PyInt0 == Py("int", "0")
PartValues == {PyStrA, PyStrB, PyStrEmpty, PyNone, PyInt0, PyInt5}
Parts == UNION { [1..n -> PartValues] : n \in 0..MaxParts }

\* Variant: only None is dropped ("if p is not None").
py_truthy_not_none(v) == v # PyNone

\* "if p": None, the empty str and the int 0 are falsy.
py_truthy(v) == v \notin {PyNone, PyStrEmpty, PyInt0, PyFalse}

\* str(p) of a str or an int.
py_str(v) == v.text

\* ':'.join(segments)
RECURSIVE join(_)
join(segs) ==
    IF segs = <<>> THEN ""
    ELSE IF Len(segs) = 1 THEN segs[1]
    ELSE segs[1] \o ":" \o join(Tail(segs))

\* The generator "str(p) for p in parts if p".
RECURSIVE truthy_strs(_)
truthy_strs(parts) ==
    IF parts = <<>> THEN <<>>
    ELSE IF py_truthy(parts[1]) THEN <<py_str(parts[1])>> \o truthy_strs(Tail(parts))
    ELSE truthy_strs(Tail(parts))

\* build_key(*parts), called with the arguments the caller has at hand.
build_key ==
    /\ redis_manager
    /\ rop' = [Op("build_key", "", PyNone, PyNone, EmptyMap, {}) EXCEPT !.parts = rop.parts]
    /\ rres' = [raised |-> "none", value |-> Py("str", join(truthy_strs(rop.parts))),
                many |-> EmptyMap]
    /\ last_setup' = "none"
    /\ UNCHANGED <<redis_instance, redis_manager, redis_client, store>>
    /\ ConfigFrame /\ ClientFrame

\* The key specification: the module-level RedisManager() has run with the
\* server up, a caller has any parts at hand, and build_key is called on them.
InitKey ==
    /\ max_retries = DefaultMaxRetries
    /\ retry_delay = DefaultRetryDelay
    /\ InitClient
    /\ redis_instance = 1
    /\ redis_manager = TRUE
    /\ redis_client = 1
    /\ decode_responses \in BOOLEAN
    /\ cache_expiration \in 1..MaxTtl
    /\ backend = "up"
    /\ store = [k \in Keys |-> Absent("never")]
    /\ \E parts \in Parts : rop = [NoOp EXCEPT !.parts = parts]
    /\ rres = NoResult
    /\ last_setup = "ok"
    /\ ThreadsIdle

NextKey == build_key

SpecKey == InitKey /\ [][NextKey]_vars

\* The connection specification: construction, close, outages, and three
\* operations on one string value.
NextConn ==
    \/ RedisManager
    \/ redis_close
    \/ redis_set({PyStrAbc})
    \/ redis_get
    \/ redis_exists
    \/ BackendChanges

SpecConn == InitRedis /\ [][NextConn]_vars

\* ------------------------------------------- RedisManager: concurrent callers
\* The methods of RedisManager are synchronous and block in network I/O
\* (ping(), the commands), and the class holds no lock: operations of the one
\* process-wide manager overlap only when threads call them, and a thread
\* can be switched out between any two statements and is switched out while
\* it blocks.  A step below is what one thread does between two such points
\* of exists(key): the test of the property client, the assignment of
\* _setup_redis_client, the start and the end of ping(), the second test and
\* the return of the property, the command.
ThreadFrame ==
    UNCHANGED <<clientVars, callVars, lifeVars, redis_instance, redis_manager,
                decode_responses, cache_expiration, backend, store, rop, rres, last_setup>>

\* What exists(key) returns or raises when its try block ended with err.
ThreadResult(err, present) ==
    IF err = "none" THEN (IF present THEN "True" ELSE "False")
    ELSE IF op_catches(err) THEN "False"
    ELSE err

\* exists(key) is called; the property client tests "self._client is None":
\* it returns the client that is there, or enters _setup_redis_client.
ThreadCalls(t) ==
    /\ redis_manager
    /\ tpc[t] \in {"idle", "done"}
    /\ tmine' = [tmine EXCEPT ![t] = 0]
    /\ tping' = [tping EXCEPT ![t] = 0]
    /\ tres' = [tres EXCEPT ![t] = "none"]
    /\ IF redis_client # 0
       THEN /\ tused' = [tused EXCEPT ![t] = redis_client]
            /\ tpc' = [tpc EXCEPT ![t] = "command"]
       ELSE /\ tused' = [tused EXCEPT ![t] = 0]
            /\ tpc' = [tpc EXCEPT ![t] = "setup"]
    /\ UNCHANGED <<redis_client, redis_created>>
    /\ ThreadFrame

\* self._client = redis.Redis(...): a new object, assigned whatever
\* self._client holds by now.
ThreadAssigns(t) ==
    /\ tpc[t] = "setup"
    /\ redis_created < MaxRedisClients
    /\ redis_created' = redis_created + 1
    /\ redis_client' = redis_created + 1
    /\ tmine' = [tmine EXCEPT ![t] = redis_created + 1]
    /\ tpc' = [tpc EXCEPT ![t] = "ping"]
    /\ UNCHANGED <<tping, tused, tres>>
    /\ ThreadFrame

\* self._client.ping() starts: self._client is read again, and the thread
\* blocks in the ping of the object it finds; on None the attribute access
\* raises AttributeError, which no except clause on the way catches.
ThreadPingStarts(t) ==
    /\ tpc[t] = "ping"
    /\ IF redis_client = 0
       THEN /\ tres' = [tres EXCEPT ![t] = ThreadResult("AttributeError", FALSE)]
            /\ tpc' = [tpc EXCEPT ![t] = "done"]
            /\ UNCHANGED tping
       ELSE /\ tping' = [tping EXCEPT ![t] = redis_client]
            /\ tpc' = [tpc EXCEPT ![t] = "pinging"]
            /\ UNCHANGED tres
    /\ UNCHANGED <<redis_client, redis_created, tmine, tused>>
    /\ ThreadFrame

\* ping() ends: with success, with redis.ConnectionError, upon which the
\* except block does self._client = None, or with an exception that leaves
\* _setup_redis_client and the property and ends exists().
ThreadPingEnds(t) ==
    /\ tpc[t] = "pinging"
    /\ LET pe == ping_error(backend)
       IN  IF pe = "none"
           THEN /\ tpc' = [tpc EXCEPT ![t] = "acquired"]
                /\ UNCHANGED <<redis_client, tres>>
           ELSE IF setup_catches(pe)
           THEN /\ redis_client' = 0
                /\ tpc' = [tpc EXCEPT ![t] = "acquired"]
                /\ UNCHANGED tres
           ELSE /\ tres' = [tres EXCEPT ![t] = ThreadResult(pe, FALSE)]
                /\ tpc' = [tpc EXCEPT ![t] = "done"]
                /\ UNCHANGED redis_client
    /\ UNCHANGED <<redis_created, tmine, tping, tused>>
    /\ ThreadFrame

\* Back in the property: if self._client is None: raise ConnectionError;
\* return self._client.
ThreadAcquires(t) ==
    /\ tpc[t] = "acquired"
    /\ IF redis_client = 0
       THEN /\ tres' = [tres EXCEPT ![t] = ThreadResult("ConnectionError", FALSE)]
            /\ tpc' = [tpc EXCEPT ![t] = "done"]
            /\ UNCHANGED tused
       ELSE /\ tused' = [tused EXCEPT ![t] = redis_client]
            /\ tpc' = [tpc EXCEPT ![t] = "command"]
            /\ UNCHANGED tres
    /\ UNCHANGED <<redis_client, redis_created, tmine, tping>>
    /\ ThreadFrame

\* The command exists(key) on the client the property returned ends.
ThreadCommandEnds(t) ==
    /\ tpc[t] = "command"
    /\ \E k \in Keys :
          tres' = [tres EXCEPT ![t] = ThreadResult(command_error(backend), store[k].present)]
    /\ tpc' = [tpc EXCEPT ![t] = "done"]
    /\ UNCHANGED <<redis_client, redis_created, tmine, tping, tused>>
    /\ ThreadFrame

\* The manager as "redis_manager = RedisManager()" leaves it at import time
\* when the server refuses the connection: constructed, without a client.
InitThreads ==
    /\ max_retries = DefaultMaxRetries
    /\ retry_delay = DefaultRetryDelay
    /\ InitClient
    /\ redis_instance = 1
    /\ redis_manager = TRUE
    /\ redis_client = 0
    /\ decode_responses \in BOOLEAN
    /\ cache_expiration \in 1..MaxTtl
    /\ backend = "refused"
    /\ store = [k \in Keys |-> Absent("never")]
    /\ rop = Op("RedisManager", "", PyNone, PyNone, EmptyMap, {})
    /\ rres = NoResult
    /\ last_setup = "failed"
    /\ ThreadsIdle

\* The thread specification: the threads call exists() on the disconnected
\* manager at any time while the server comes and goes.
NextThreads ==
    \/ BackendChanges
    \/ \E t \in Threads :
        \/ ThreadCalls(t)
        \/ ThreadAssigns(t)
        \/ ThreadPingStarts(t)
        \/ ThreadPingEnds(t)
        \/ ThreadAcquires(t)
        \/ ThreadCommandEnds(t)

SpecThreads == InitThreads /\ [][NextThreads]_vars

\* The round-trip specification: the server is up, the manager is
\* constructed, values of every kind are set and read back.
InitRoundTrip ==
    /\ InitRedis
    /\ backend = "up"

NextRoundTrip ==
    \/ RedisManager
    \/ redis_set(RoundTripValues)
    \/ redis_get
    \/ get_many
    \/ TimePasses

SpecRoundTrip == InitRoundTrip /\ [][NextRoundTrip]_vars

\* The store specification: the server is up; values are set, read, deleted
\* and flushed, and time passes.
NextStore ==
    \/ RedisManager
    \/ redis_set(CacheValues)
    \/ set_many(CacheMappings)
    \/ redis_get
    \/ redis_delete
    \/ redis_exists
    \/ flush_all
    \/ get_many
    \/ TimePasses

SpecStore == InitRoundTrip /\ [][NextStore]_vars

TypeOK ==
    /\ client \in 0..MaxClients
    /\ created \in 0..MaxClients
    /\ \A c \in Calls :
        /\ pc[c] \in {"idle", "awaiting", "sleeping", "returned", "raised"}
        /\ retries[c] \in 0..(max_retries + 1)
        /\ Len(sent[c]) <= max_retries + 1

\* ======================================================= checked properties
\* Vocabulary of the properties, spelled out independently of the model's
\* own operators.
StatedRetryable == {408, 429, 500, 502, 503, 504}
StatedTransport == {"ConnectError", "ReadTimeout"}
Attempts(c) == Len(sent[c])
Answered(c) == Len(responses[c])
LastResponse(c) == responses[c][Len(responses[c])]
IsStatus(r) == r.kind = "response"
IsRetryableStatus(r) == IsStatus(r) /\ r.status \in StatedRetryable
IsNonRetryableStatus(r) == IsStatus(r) /\ r.status >= 400 /\ r.status \notin StatedRetryable
IsTransport(r) == r.kind \in StatedTransport
IsSuccess(r) == IsStatus(r) /\ r.status >= 200 /\ r.status < 300
\* The call used up its budget: max_retries + 1 attempts were answered and the
\* last answer was a retryable failure.
Exhausted(c) ==
    /\ max_retries >= 0
    /\ pc[c] = "raised"
    /\ Answered(c) = max_retries + 1
    /\ (IsRetryableStatus(LastResponse(c)) \/ IsTransport(LastResponse(c)))

\* C1: a non-retryable error status (outside 408, 429, 500, 502, 503, 504) on
\* the first attempt ends the call at once, for every max_retries >= 0:
\* exactly one attempt was issued, no backoff sleep was performed, and the
\* call raised the status error of that first attempt.
C1_NonRetryableFirstAttemptFailsAtOnce ==
    \A c \in Calls :
        (max_retries >= 0 /\ Answered(c) >= 1 /\ IsNonRetryableStatus(responses[c][1]))
            => /\ pc[c] = "raised"
               /\ Attempts(c) = 1
               /\ Answered(c) = 1
               /\ sleeps[c] = <<>>
               /\ raised[c] = [kind |-> "HTTPStatusError",
                               code |-> responses[c][1].status, attempt |-> 1]

\* C1 witness: a 404 on the first attempt of a client that still had its
\* whole budget of 3 retries has ended the call.
C1_Witness ==
    \E c \in Calls :
        /\ max_retries = 3
        /\ pc[c] = "raised"
        /\ responses[c] = <<HttpResponse(404, "")>>

\* C2: when every attempt fails with a retryable status and max_retries = N >= 0,
\* the call issues exactly N+1 attempts and then fails: it has not failed
\* before the (N+1)-th failure, it has failed once the (N+1)-th failure is in,
\* it never issues an (N+2)-th attempt and it never returns.
C2_RetryableStatusExactlyNPlusOneAttempts ==
    \A c \in Calls :
        (max_retries >= 0 /\ \A i \in 1..Answered(c) : IsRetryableStatus(responses[c][i]))
            => /\ Attempts(c) <= max_retries + 1
               /\ (pc[c] = "raised") <=> (Answered(c) = max_retries + 1)
               /\ pc[c] = "raised" => Attempts(c) = max_retries + 1
               /\ pc[c] # "returned"

\* C2 witness: max_retries = 3 and four retryable statuses, one of each of
\* four different codes, after which the call has failed.
C2_Witness ==
    \E c \in Calls :
        /\ max_retries = 3
        /\ pc[c] = "raised"
        /\ responses[c] = <<HttpResponse(503, ""), HttpResponse(429, ""),
                            HttpResponse(408, ""), HttpResponse(504, "")>>
        /\ Attempts(c) = 4

\* C3: the k-th backoff sleep of a call lasts exactly retry_delay * 2^(k-1);
\* there is exactly one sleep between two consecutive attempts (a call that
\* is sleeping has slept once per attempt, any other call once per attempt
\* but the last); a call that exhausts max_retries = N has slept exactly N
\* times and not after its last failed attempt.
C3_BackoffIsPureExponential ==
    \A c \in Calls :
        /\ \A k \in 1..Len(sleeps[c]) : sleeps[c][k] = retry_delay * 2^(k - 1)
        /\ pc[c] = "sleeping" => Len(sleeps[c]) = Attempts(c)
        /\ (pc[c] # "sleeping" /\ Attempts(c) >= 1) => Len(sleeps[c]) = Attempts(c) - 1
        /\ Attempts(c) = 0 => sleeps[c] = <<>>
        /\ Exhausted(c) => Len(sleeps[c]) = max_retries

\* C3 witness: a call with retry_delay = 2 that exhausted max_retries = 3
\* slept 2, 4 and 8 seconds.
C3_Witness ==
    \E c \in Calls :
        /\ retry_delay = 2
        /\ max_retries = 3
        /\ Exhausted(c)
        /\ sleeps[c] = <<2, 4, 8>>

\* C4: a success response on attempt j after j-1 retryable failures ends the
\* call with that response: exactly j attempts and j-1 sleeps have happened
\* and none follows, and a JSON body is returned parsed; in particular a 503
\* followed by a 200 returns the 200's parsed body after exactly one sleep
\* of retry_delay.
C4_SuccessReturnsImmediately ==
    \A c \in Calls :
        (Answered(c) >= 1 /\ IsSuccess(LastResponse(c)))
            => /\ pc[c] \in {"returned", "raised"}
               /\ Attempts(c) = Answered(c)
               /\ Len(sleeps[c]) = Answered(c) - 1
               /\ retries[c] = Answered(c) - 1
               /\ Answered(c) <= max_retries + 1
               /\ LastResponse(c).body = "{\"count\":0,\"records\":[]}"
                    => (pc[c] = "returned" /\ returned[c].type = "object")
               /\ LastResponse(c).body = "[]"
                    => (pc[c] = "returned" /\ returned[c].type = "array")
               /\ (Answered(c) = 2 /\ responses[c][1] = HttpResponse(503, ""))
                    => sleeps[c] = <<retry_delay>>

\* C4 witness: a 503 followed by a 200 with a JSON object body; the call
\* returned after one sleep.
C4_Witness ==
    \E c \in Calls :
        /\ responses[c] = <<HttpResponse(503, ""),
                            HttpResponse(200, "{\"count\":0,\"records\":[]}")>>
        /\ pc[c] = "returned"
        /\ Len(sleeps[c]) = 1

\* C5: a transport-level failure (connection error, timeout) is always
\* retryable: it consumes one unit of the retry budget like a retryable
\* status (the counter equals the number of failed attempts), and it is
\* followed by a backoff sleep and a new attempt unless the budget is spent,
\* in which case the call fails with that transport error.
C5_TransportFailureIsRetryable ==
    \A c \in Calls :
        (Answered(c) >= 1 /\ IsTransport(LastResponse(c)))
            => /\ retries[c] = Answered(c)
               /\ Answered(c) <= max_retries
                    => /\ pc[c] \in {"sleeping", "awaiting"}
                       /\ Len(sleeps[c]) = Answered(c)
                       /\ pc[c] = "awaiting" => Attempts(c) = Answered(c) + 1
               /\ Answered(c) > max_retries
                    => /\ pc[c] = "raised"
                       /\ raised[c].kind = LastResponse(c).kind

\* C5 witness: a connection error on the first attempt, the backoff sleep
\* over and the second attempt in flight.
C5_Witness ==
    \E c \in Calls :
        /\ responses[c] = <<TransportFailure("ConnectError")>>
        /\ pc[c] = "awaiting"
        /\ Attempts(c) = 2

\* C6: when the retry budget is exhausted the call raises the error of its
\* final attempt, whatever mix of retryable failures came before.
C6_ExhaustionRaisesLastError ==
    \A c \in Calls :
        Exhausted(c)
            => /\ raised[c].attempt = Answered(c)
               /\ raised[c].attempt = Attempts(c)
               /\ IsStatus(LastResponse(c))
                    => (raised[c].kind = "HTTPStatusError"
                        /\ raised[c].code = LastResponse(c).status)
               /\ IsTransport(LastResponse(c))
                    => raised[c].kind = LastResponse(c).kind

\* C6 witness: timeout, 503, 500 with max_retries = 2 raised the 500 error of
\* the third attempt.
C6_Witness ==
    \E c \in Calls :
        /\ max_retries = 2
        /\ responses[c] = <<TransportFailure("ReadTimeout"), HttpResponse(503, ""),
                            HttpResponse(500, "")>>
        /\ pc[c] = "raised"
        /\ raised[c] = [kind |-> "HTTPStatusError", code |-> 500, attempt |-> 3]

\* C7 as stated: every budget-exhaustion failure is surfaced as an error of
\* the distinct kind RetriesExhausted.
C7_ExhaustionRaisesRetriesExhausted ==
    \A c \in Calls : Exhausted(c) => raised[c].kind = "RetriesExhausted"

\* C7 amended: no call ever raises a RetriesExhausted error; a budget
\* exhaustion surfaces the last underlying error itself, unwrapped, so that
\* 500 on every attempt raises an HTTPStatusError carrying 500, of the same
\* kind as an immediate non-retryable failure.
C7_ExhaustionRaisesUnderlyingErrorUnwrapped ==
    \A c \in Calls :
        /\ raised[c].kind # "RetriesExhausted"
        /\ pc[c] = "raised"
            => raised[c].kind \in {"HTTPStatusError", "ConnectError", "ReadTimeout",
                                   "JSONDecodeError", "RequestError"}
        /\ (Exhausted(c) /\ \A i \in 1..Answered(c) : responses[c][i] = HttpResponse(500, ""))
            => (raised[c].kind = "HTTPStatusError" /\ raised[c].code = 500)

\* C7 witness: 500 on each of the four attempts of a max_retries = 3 client.
C7_Witness ==
    \E c \in Calls :
        /\ max_retries = 3
        /\ Exhausted(c)
        /\ \A i \in 1..4 : responses[c][i] = HttpResponse(500, "")

\* C8: a success response whose body is not valid JSON makes get, post, put
\* and delete fail with a decode error raised to the caller; that response is
\* the last event of the call: no attempt and no sleep follows it and the
\* retry counter is not advanced by it.
C8_DecodeErrorIsTerminal ==
    \A c \in Calls :
        (Answered(c) >= 1 /\ IsSuccess(LastResponse(c))
                          /\ LastResponse(c).body \in {"<html>", ""})
            => /\ pc[c] = "raised"
               /\ raised[c] = [kind |-> "JSONDecodeError", code |-> 0,
                               attempt |-> Answered(c)]
               /\ Attempts(c) = Answered(c)
               /\ Len(sleeps[c]) = Answered(c) - 1
               /\ retries[c] = Answered(c) - 1

\* C8 witness: a delete whose first attempt met a 503 and whose second got a
\* 200 with an empty body, with budget left.
C8_Witness ==
    \E c \in Calls :
        /\ kwargs[c].method = "delete"
        /\ max_retries = 3
        /\ responses[c] = <<HttpResponse(503, ""), HttpResponse(200, "")>>
        /\ pc[c] = "raised"

\* C9: every attempt of a get, post, put or delete, retries included, is sent
\* with query parameter 'api-key' equal to the client's configured key,
\* whatever params the caller passed (None, empty, or holding an 'api-key'
\* of its own, which is overwritten); every other caller parameter is sent
\* unchanged and nothing else is added.
C9_EveryAttemptCarriesApiKey ==
    \A c \in Calls :
        \A i \in 1..Attempts(c) :
            LET q == sent[c][i].params
                given == IF args[c].isNone THEN {} ELSE DOMAIN args[c].dict
            IN  /\ "api-key" \in DOMAIN q
                /\ q["api-key"] = api_key
                /\ DOMAIN q = given \cup {"api-key"}
                /\ \A k \in given \ {"api-key"} : q[k] = args[c].dict[k]

\* C9 witness: a put whose caller passed its own 'api-key' and another
\* parameter, two attempts issued.
C9_Witness ==
    \E c \in Calls :
        /\ kwargs[c].method = "put"
        /\ ~args[c].isNone
        /\ DOMAIN args[c].dict = {"api-key", "q"}
        /\ args[c].dict["api-key"] = "caller-key"
        /\ Attempts(c) = 2

\* C10: every attempt of a get_mandi_prices call is a GET whose query holds
\* exactly 'api-key', 'format', 'offset' and 'limit' (also for offset = 0)
\* plus one parameter per present filter, 'filters[state.keyword]' for state
\* and 'filters[<name>]' for the other five, each with the caller's value; a
\* filter that is None or the empty string adds no parameter; and the call
\* issues its GET as soon as it is made.
C10_MandiQueryParameters ==
    \A c \in Calls :
        mandiArgs[c].used =>
            LET a == mandiArgs[c]
                present(v) == v # "None" /\ v # ""
                filters == { <<"filters[state.keyword]", a.state>>,
                             <<"filters[district]", a.district>>,
                             <<"filters[market]", a.market>>,
                             <<"filters[commodity]", a.commodity>>,
                             <<"filters[variety]", a.variety>>,
                             <<"filters[grade]", a.grade>> }
                expected == { f[1] : f \in { g \in filters : present(g[2]) } }
            IN  /\ Attempts(c) >= 1
                /\ \A i \in 1..Attempts(c) :
                     LET q == sent[c][i].params
                     IN  /\ sent[c][i].method = "get"
                         /\ DOMAIN q = {"api-key", "format", "offset", "limit"} \cup expected
                         /\ q["api-key"] = api_key
                         /\ q["format"] = a.format
                         /\ q["offset"] = a.offset
                         /\ q["limit"] = a.limit
                         /\ \A f \in filters : present(f[2]) => q[f[1]] = f[2]

\* C10 witness: state Punjab, commodity empty, the other filters None,
\* offset 0, limit 5; the GET was retried once.
C10_Witness ==
    \E c \in Calls :
        /\ mandiArgs[c].used
        /\ mandiArgs[c].state = "Punjab"
        /\ mandiArgs[c].commodity = ""
        /\ mandiArgs[c].district = "None"
        /\ mandiArgs[c].offset = 0
        /\ mandiArgs[c].limit = 5
        /\ Attempts(c) = 2
        /\ DOMAIN sent[c][2].params
             = {"api-key", "format", "offset", "limit", "filters[state.keyword]"}

\* C11: under any interleaving of concurrent first calls through a client that
\* has no AsyncClient yet, exactly one AsyncClient is created, the client holds
\* it, and every attempt of every call is issued on it: no second one is ever
\* created.
C11_ConcurrentFirstUseCreatesOneResource ==
    /\ created <= 1
    /\ \A c \in Calls :
        pc[c] # "idle"
            => /\ created = 1
               /\ client = 1
               /\ bound[c] = 1
               /\ \A i \in 1..Attempts(c) : sent[c][i].resource = 1

\* C11 witness: both calls made their first attempt and both are in flight.
C11_Witness ==
    /\ pc[1] = "awaiting" /\ Attempts(1) = 1
    /\ pc[2] = "awaiting" /\ Attempts(2) = 1
    /\ bound[1] = bound[2]

\* The coroutine frame of a call.
Frame(c) ==
    <<pc[c], args[c], callerDict[c], kwargs[c], bound[c], retries[c], last_exception[c],
      sent[c], responses[c], sleeps[c], raised[c], returned[c]>>
RetryableFailures(c) ==
    Cardinality({ i \in 1..Answered(c) :
                    IsRetryableStatus(responses[c][i]) \/ IsTransport(responses[c][i]) })
C12_FrameFollowsOwnHistory ==
    \A c \in Calls :
        /\ retries[c] = RetryableFailures(c)
        /\ max_retries >= 0 => Attempts(c) <= max_retries + 1
        /\ \A k \in 1..Len(sleeps[c]) : sleeps[c][k] = retry_delay * 2^(k - 1)
        /\ pc[c] = "sleeping" => Len(sleeps[c]) = RetryableFailures(c)
        /\ (Answered(c) >= 1 /\ IsSuccess(LastResponse(c))) => pc[c] = "returned"
        /\ (Answered(c) >= 1 /\ IsNonRetryableStatus(LastResponse(c)))
              => (pc[c] = "raised" /\ raised[c].code = LastResponse(c).status)
        /\ pc[c] = "raised" /\ max_retries >= 0
              => \/ IsNonRetryableStatus(LastResponse(c))
                 \/ RetryableFailures(c) = max_retries + 1
C12_OthersCanProceed ==
    \A c \in Calls : \A d \in Calls \ {c} :
        pc[c] \in {"awaiting", "sleeping"}
            => /\ pc[d] = "idle" => ENABLED get(d)
               /\ pc[d] = "awaiting" => ENABLED AttemptEnds(d, ConcResponses)
               /\ pc[d] = "sleeping" => ENABLED SleepEnds(d)
C12_StepTouchesOneFrame ==
    \A c \in Calls : \A d \in Calls \ {c} :
        Frame(c)' # Frame(c) => Frame(d)' = Frame(d)

\* C12: concurrent requests through one client are independent: every call's
\* counter, attempts, delays and outcome follow from its own responses alone;
\* while one call awaits a response or sleeps in backoff, the next step of
\* the other call is enabled; and every step changes the frame of one call
\* only.
C12_ConcurrentRequestsIndependent ==
    /\ [](C12_FrameFollowsOwnHistory /\ C12_OthersCanProceed)
    /\ [][C12_StepTouchesOneFrame]_vars

\* C12 witness: call 1 is in its second backoff sleep while call 2, which
\* failed once itself, has returned.
C12_Witness ==
    /\ max_retries = 2
    /\ pc[1] = "sleeping" /\ retries[1] = 2
    /\ pc[2] = "returned" /\ retries[2] = 1 /\ Attempts(2) = 2

\* C13: when the async-with scope of a client has ended, normally or because
\* a request raised inside it (also after exhausting its retries), the client
\* holds no AsyncClient and every AsyncClient it created has been closed.
C13_ScopeExitReleasesResource ==
    scope = "exited"
        => /\ client = 0
           /\ upc = "ready"
           /\ created >= 1
           /\ \A i \in 1..created : released[i] = 1

\* C13 witness: a request made inside the scope exhausted max_retries = 3 and
\* raised, and the scope has ended.
C13_Witness ==
    /\ scope = "exited"
    /\ max_retries = 3
    /\ Exhausted(1)
    /\ bound[1] = 1
    /\ released[1] = 1

C14_AtMostOneResource ==
    /\ \A i \in 1..MaxClients : released[i] <= 1
    /\ \A i \in 1..MaxClients : i > created => released[i] = 0
    /\ { i \in 1..created : released[i] = 0 } = (IF client = 0 THEN {} ELSE {client})
C14_EnsureOnActiveIsNoOp ==
    (client # 0 /\ lifeOp' \in {"ensure", "aenter"})
        => (client' = client /\ created' = created /\ released' = released)
C14_CloseOnNoneIsNoOp ==
    (client = 0 /\ upc = "ready" /\ lifeOp' \in {"close", "aexit"} /\ lifeOp' # lifeOp)
        => (client' = 0 /\ created' = created /\ released' = released /\ upc' = "ready")

\* C14: the lifecycle operations are idempotent: _ensure_client or __aenter__
\* on a client that holds an AsyncClient keeps it and creates none; close()
\* or __aexit__ on a client that holds none changes nothing; and after any
\* sequence of these operations and requests the client holds at most one
\* AsyncClient, the only one not closed, and each AsyncClient was closed at
\* most once.
C14_LifecycleIdempotent ==
    /\ []C14_AtMostOneResource
    /\ [][C14_EnsureOnActiveIsNoOp /\ C14_CloseOnNoneIsNoOp]_vars

\* C14 witness: the first AsyncClient was closed, a second was created by a
\* later operation, and _ensure_client has just run on the active client.
C14_Witness ==
    /\ created = 2
    /\ released[1] = 1
    /\ client = 2
    /\ released[2] = 0
    /\ lifeOp = "ensure"

C15_CancelledCallHasEnded ==
    \A c \in Calls :
        cancelled[c]
            => /\ pc[c] = "raised"
               /\ raised[c].kind = "CancelledError"
               /\ last_exception[c].kind # "CancelledError"
C15_CancelStepKeepsCounters ==
    \A c \in Calls :
        (cancelled'[c] /\ ~cancelled[c])
            => /\ pc[c] \in {"awaiting", "sleeping"}
               /\ retries'[c] = retries[c]
               /\ sent'[c] = sent[c]
               /\ sleeps'[c] = sleeps[c]
C15_NothingAfterCancel ==
    \A c \in Calls :
        cancelled[c]
            => /\ pc'[c] = pc[c]
               /\ retries'[c] = retries[c]
               /\ sent'[c] = sent[c]
               /\ raised'[c] = raised[c]

\* C15: a call cancelled while an attempt is pending or while it sleeps in
\* backoff ends by raising CancelledError; the except block never handles the
\* cancellation (it does not become last_exception), the step of the
\* cancellation leaves retries, the attempts and the sleeps as they were, and
\* nothing of the call changes afterwards, so no further attempt is issued.
C15_CancellationEndsCall ==
    /\ []C15_CancelledCallHasEnded
    /\ [][C15_CancelStepKeepsCounters /\ C15_NothingAfterCancel]_vars

\* C15 witness: the second attempt was pending (one retryable failure before
\* it) when the call was cancelled, and retries is still 1.
C15_Witness ==
    /\ cancelled[1]
    /\ Len(sent[1]) = 2
    /\ Len(responses[1]) = 1
    /\ retries[1] = 1
    /\ pc[1] = "raised"

C16_AttemptsBounded ==
    \A c \in Calls : Attempts(c) <= max_retries + 1
C16_TimeoutConsumesBudget ==
    \A c \in Calls :
        (Answered(c)' = Answered(c) + 1 /\ LastResponse(c)'.kind = "ReadTimeout")
            => /\ retries'[c] = retries[c] + 1
               /\ last_exception'[c].kind = "ReadTimeout"
               /\ \/ pc'[c] = "sleeping"
                  \/ pc'[c] = "raised" /\ retries'[c] > max_retries
                                       /\ raised'[c].kind = "ReadTimeout"

\* C16: every call that has started ends, by returning or raising, and never
\* issues more than max_retries + 1 attempts; an attempt that ends with a
\* timeout advances retries by one and is followed by a backoff sleep, or by
\* the raise of that timeout when the budget is spent.
C16_CallTerminates ==
    /\ []C16_AttemptsBounded
    /\ [][C16_TimeoutConsumesBudget]_vars
    /\ \A c \in SeqCalls :
          (pc[c] \in {"awaiting", "sleeping"}) ~> (pc[c] \in {"returned", "raised"})

\* C16 witness: with max_retries = 3 all four attempts timed out and the call
\* has ended by raising the last timeout.
C16_Witness ==
    /\ max_retries = 3
    /\ pc[1] = "raised"
    /\ Answered(1) = 4
    /\ \A i \in 1..4 : responses[1][i].kind = "ReadTimeout"
    /\ raised[1].kind = "ReadTimeout"
    /\ Len(sleeps[1]) = 3

\* A step that is a call of get: the operation recorded last is a get, and
\* neither the database nor the server changed (time and outages do that).
GetStep == rop'.name = "get" /\ store' = store /\ backend' = backend
NeverWrittenOrExpired(k) == ~store[k].present /\ store[k].why \in {"never", "expired"}

\* C17: get(key, default) on a key that was never written, or that was
\* written and has expired, returns the default it was given and raises
\* nothing, whatever was set, deleted or flushed before and whatever the
\* state of the server.
C17_GetAbsentReturnsDefault ==
    [][(GetStep /\ NeverWrittenOrExpired(rop'.key))
          => (rres'.raised = "none" /\ rres'.value = rop'.default)]_vars

\* C17 witness: k1 was written and has expired, k2 is still stored, the server
\* is up, and get("k1", "default") has returned "default".
C17_Witness ==
    /\ rop.name = "get"
    /\ rop.key = "k1"
    /\ rop.default = PyStrDefault
    /\ store["k1"].why = "expired"
    /\ store["k2"].present
    /\ backend = "up"
    /\ rres.raised = "none"
    /\ rres.value = PyStrDefault

\* The values C18 speaks of: JSON-serializable structured data, numbers,
\* booleans and null, scalar strings, byte payloads.
C18_Values ==
    {PyDict, PyList, PyInt5, PyTrue, PyNone, PyStrAbc, PyStrJson, PyStrBrace, PyBytesAbc}

\* C18: when set(k, v) has returned True for such a value v and get(k) is the
\* next operation, with the key still stored, get returns a value equal to v.
C18_SetThenGetReturnsValue ==
    [][(/\ rop.name = "set"
        /\ rop.value \in C18_Values
        /\ rres.raised = "none"
        /\ rres.value = PyTrue
        /\ store[rop.key].present
        /\ GetStep
        /\ rop'.key = rop.key)
          => (rres'.raised = "none" /\ rres'.value = rop.value)]_vars

\* A step that is a call of an operation of the manager.
OpStep == rop' # rop \/ rres' # rres \/ redis_client' # redis_client
\* What an operation gives when the cache fails: the default for get, False
\* for set, set_many, delete, exists and flush_all, an empty mapping for
\* get_many, and a manager for RedisManager().
FailureResult(o) ==
    CASE o.name = "get" -> [raised |-> "none", value |-> o.default, many |-> EmptyMap]
      [] o.name \in {"set", "set_many", "delete", "exists", "flush_all"} ->
            [raised |-> "none", value |-> PyFalse, many |-> EmptyMap]
      [] OTHER -> [raised |-> "none", value |-> PyNone, many |-> EmptyMap]
SerializableArguments(o) ==
    /\ json_serializable(o.value)
    /\ \A k \in DOMAIN o.mapping : json_serializable(o.mapping[k])

\* C19: while the server is unreachable or fails its commands, no operation
\* called with serializable arguments raises, RedisManager() included: each
\* gives its failure result.
C19_OutageNeverRaises ==
    [][(/\ OpStep
        /\ backend # "up"
        /\ backend' = backend
        /\ rop'.name # "close"
        /\ SerializableArguments(rop'))
          => rres' = FailureResult(rop')]_vars

\* C20: set and set_many called with a value json.dumps cannot serialize
\* raise nothing, return False and leave the database as it was.
C20_UnserializableReturnsFalse ==
    [][(/\ OpStep
        /\ rop'.name \in {"set", "set_many"}
        /\ ~SerializableArguments(rop'))
          => (rres'.raised = "none" /\ rres'.value = PyFalse /\ store' = store)]_vars

Present(k) == IF store[k].present THEN PyTrue ELSE PyFalse

\* C21: an operation (or RedisManager()) called while the manager holds no
\* client runs the handshake first; when the server is up the handshake
\* gives the manager a client and the operation succeeds: set stores the
\* value and returns True, exists and get answer from the database.
C21_DisconnectedReconnects ==
    [][(/\ OpStep
        /\ redis_client = 0
        /\ rop'.name # "close"
        /\ backend' = backend)
          => /\ last_setup' # "none"
             /\ backend = "up"
                  => /\ redis_client' = 1
                     /\ last_setup' = "ok"
                     /\ rres'.raised = "none"
                     /\ rop'.name = "set"
                          => (rres'.value = PyTrue /\ store'[rop'.key].present)
                     /\ rop'.name = "exists" => rres'.value = Present(rop'.key)
                     /\ (rop'.name = "get" /\ store[rop'.key].present)
                          => rres'.value.text = store[rop'.key].text]_vars

\* C21 witness: the manager was constructed, lost its client (close, or a
\* refused handshake), and a set has reconnected and stored its value.
C21_Witness ==
    /\ redis_manager
    /\ rop.name = "set"
    /\ last_setup = "ok"
    /\ redis_client = 1
    /\ rres.value = PyTrue
    /\ store[rop.key].present

\* C22: a handshake that fails, for whatever reason, leaves the manager
\* without a client; close() leaves the manager without a client, and on a
\* manager that has none it changes neither the client nor the database.
C22_ClientOnlyAfterHandshake ==
    [][/\ (OpStep /\ backend' = backend /\ last_setup' = "failed") => redis_client' = 0
       /\ (OpStep /\ rop'.name = "close") => redis_client' = 0
       /\ (OpStep /\ rop'.name = "close" /\ redis_client = 0)
             => (store' = store /\ redis_instance' = redis_instance)]_vars

\* A step that is a call of RedisManager().
ConstructStep == rop'.name = "RedisManager" /\ backend' = backend /\ store' = store
C23_OneInstance == redis_instance \in {0, 1}
C23_ConstructConnectedIsNoOp ==
    (ConstructStep /\ redis_instance = 1 /\ redis_client = 1)
        => /\ redis_instance' = 1
           /\ redis_client' = 1
           /\ last_setup' = "none"
           /\ rres'.raised = "none"

\* C23: there is never more than one manager object, every RedisManager()
\* gives that object, and RedisManager() on a manager that holds a client
\* runs no handshake and keeps the client.
C23_SingleInstance ==
    /\ []C23_OneInstance
    /\ [][ConstructStep => redis_instance' = 1]_vars
    /\ [][C23_ConstructConnectedIsNoOp]_vars

\* C23 witness: RedisManager() was called on the existing, connected manager:
\* no handshake ran and the client is still held.
C23_Witness ==
    /\ rop.name = "RedisManager"
    /\ redis_manager
    /\ redis_instance = 1
    /\ redis_client = 1
    /\ last_setup = "none"

\* A step that is a call of get_many.
GetManyStep == rop'.name = "get_many" /\ store' = store /\ backend' = backend

\* C24: with the server up, get_many(keys) returns a mapping whose keys are
\* exactly the requested keys that are stored and not expired; no key is
\* mapped to None.
C24_GetManyReturnsExistingKeys ==
    [][(GetManyStep /\ backend = "up")
          => /\ rres'.raised = "none"
             /\ DOMAIN rres'.many = { k \in rop'.keys : store[k].present }
             /\ \A k \in DOMAIN rres'.many : rres'.many[k] # PyNone]_vars

\* C24 witness: both keys were requested, only k1 is stored, and the mapping
\* returned has k1 alone.
C24_Witness ==
    /\ rop.name = "get_many"
    /\ rop.keys = {"k1", "k2"}
    /\ store["k1"].present
    /\ ~store["k2"].present
    /\ rres.raised = "none"
    /\ DOMAIN rres.many = {"k1"}

\* Texts that start with '{' or '[', and those of them that are JSON.
StatedLeading == {"{\"a\": 1}", "[1]", "{oops"}
StatedJson == {"{\"a\": 1}", "[1]"}
\* The value the rule of C25 gives for stored text t: the decoded object or
\* array when the reply is text that starts with '{' or '[' and is JSON, and
\* the reply itself, as text (or as bytes when responses are not decoded),
\* otherwise.
C25_Rule(t, v) ==
    IF decode_responses /\ t \in StatedLeading /\ t \in StatedJson
    THEN v.type \in {"dict", "list"} /\ v.text = t
    ELSE v = [type |-> IF decode_responses THEN "str" ELSE "bytes", text |-> t]

\* C25: get returns for a stored value what the rule gives, and get_many
\* does so for every value it returns.
C25_DecodeOnlyJsonLooking ==
    [][/\ (GetStep /\ store[rop'.key].present)
             => (rres'.raised = "none" /\ C25_Rule(store[rop'.key].text, rres'.value))
       /\ GetManyStep
             => \A k \in DOMAIN rres'.many : C25_Rule(store[k].text, rres'.many[k])]_vars

\* C25 witness: the text "{oops" starts with '{' and is not JSON, and get has
\* returned it as text.
C25_Witness ==
    /\ decode_responses
    /\ rop.name = "get"
    /\ store[rop.key].present
    /\ store[rop.key].text = "{oops"
    /\ rres.value = PyStrBrace

\* The key C26 describes, from the left: a falsy part adds nothing, another
\* part adds its text, with ':' between it and what follows if anything does.
StatedFalsy == {PyNone, PyStrEmpty, PyInt0}
RECURSIVE StatedKey(_)
StatedKey(parts) ==
    IF parts = <<>> THEN ""
    ELSE LET rest == StatedKey(Tail(parts))
         IN  IF parts[1] \in StatedFalsy THEN rest
             ELSE IF rest = "" THEN parts[1].text
             ELSE parts[1].text \o ":" \o rest

\* C26: build_key returns the non-falsy parts in their order joined with
\* ':', whatever the state of the manager; build_key("a", "", "b", None) is
\* "a:b".
C26_BuildKeyJoinsTruthyParts ==
    rop.name = "build_key"
        => /\ rres.raised = "none"
           /\ rres.value = Py("str", StatedKey(rop.parts))
           /\ rop.parts = <<PyStrA, PyStrEmpty, PyStrB, PyNone>> => rres.value.text = "a:b"

\* C26 witness: build_key("a", "", "b", None) has returned "a:b".
C26_Witness ==
    /\ rop.name = "build_key"
    /\ rop.parts = <<PyStrA, PyStrEmpty, PyStrB, PyNone>>
    /\ rres.value = Py("str", "a:b")

C27_DeleteRemovesOnlyItsKey ==
    (redis_delete /\ rres'.value = PyTrue)
        => /\ store[rop'.key].present
           /\ ~store'[rop'.key].present
           /\ \A j \in Keys \ {rop'.key} : store'[j] = store[j]
C27_FlushRemovesEveryKey ==
    (flush_all /\ rres'.value = PyTrue) => \A k \in Keys : ~store'[k].present
C27_AbsentUntilSet ==
    \A k \in Keys :
        (~store[k].present /\ store'[k].present)
            => \/ rop'.name = "set" /\ rop'.key = k
               \/ rop'.name = "set_many" /\ k \in DOMAIN rop'.mapping
C27_AbsentReadsAsAbsent ==
    /\ (redis_get /\ ~store[rop'.key].present) => rres'.value = rop'.default
    /\ (redis_exists /\ ~store[rop'.key].present) => rres'.value = PyFalse
    /\ get_many => \A k \in Keys : ~store[k].present => k \notin DOMAIN rres'.many

\* C27: delete(k) returning True removes k and leaves every other key and
\* its entry as they were; flush_all() returning True removes every key; a
\* key that is absent becomes present only by a set or set_many that writes
\* it, and until then get gives the default, exists gives False and get_many
\* leaves the key out.
C27_DeletedStaysAbsent ==
    [][/\ C27_DeleteRemovesOnlyItsKey
       /\ C27_FlushRemovesEveryKey
       /\ C27_AbsentUntilSet
       /\ C27_AbsentReadsAsAbsent]_vars

\* C27 witness: k1 was deleted while k2 stays stored, and exists("k1") has
\* returned False.
C27_Witness ==
    /\ store["k1"].why = "deleted"
    /\ ~store["k1"].present
    /\ store["k2"].present
    /\ rop.name = "exists"
    /\ rop.key = "k1"
    /\ rres.value = PyFalse

\* The time to live C28 states for a call: the configured default when no
\* expiration was given, the given one otherwise.
StatedTtl == IF rop'.expiration = NoneExp THEN cache_expiration ELSE rop'.expiration
C28_EveryEntryExpires ==
    \A k \in Keys : store[k].present => store[k].ttl \in 1..MaxTtl
C28_SetStoresTtl ==
    (redis_set(CacheValues) /\ rres'.value = PyTrue)
        => (store'[rop'.key].present /\ store'[rop'.key].ttl = StatedTtl)
C28_SetManyStoresTtl ==
    (set_many(CacheMappings) /\ rres'.value = PyTrue)
        => \A k \in DOMAIN rop'.mapping :
              store'[k].present /\ store'[k].ttl = StatedTtl

\* C28: a set or set_many that succeeds stores every entry it writes with
\* the configured default time to live when no expiration was given and with
\* the given one otherwise, each key of a batch alike; no stored entry is
\* without a time to live.
C28_DefaultAndExplicitTtl ==
    /\ []C28_EveryEntryExpires
    /\ [][C28_SetStoresTtl /\ C28_SetManyStoresTtl]_vars

\* C28 witness: with a configured default of 2 seconds, set_many without an
\* expiration has just stored both keys with 2 seconds to live.
C28_Witness ==
    /\ cache_expiration = 2
    /\ rop.name = "set_many"
    /\ rop.expiration = NoneExp
    /\ DOMAIN rop.mapping = Keys
    /\ rres.value = PyTrue
    /\ \A k \in Keys : store[k].present /\ store[k].ttl = 2

\* C29: a non-retryable status on attempt j >= 1, also after j-1 retryable
\* failures (status or transport), ends the call at once: exactly j attempts
\* were issued and answered, exactly j-1 sleeps were performed, the retry
\* counter stands at j-1 whatever budget is left, and the call raised the
\* status error of attempt j, not an earlier one.
C29_NonRetryableEndsCallOnAnyAttempt ==
    \A c \in Calls : \A j \in 1..Answered(c) :
        IsNonRetryableStatus(responses[c][j])
            => /\ \A i \in 1..(j - 1) :
                     IsRetryableStatus(responses[c][i]) \/ IsTransport(responses[c][i])
               /\ pc[c] = "raised"
               /\ Attempts(c) = j
               /\ Answered(c) = j
               /\ Len(sleeps[c]) = j - 1
               /\ retries[c] = j - 1
               /\ raised[c] = [kind |-> "HTTPStatusError",
                               code |-> responses[c][j].status, attempt |-> j]

\* C29 witness: with a budget of 3 retries, a 503 and a connection error
\* were each followed by a sleep, and a 404 on the third attempt has ended
\* the call with one retry of the budget left.
C29_Witness ==
    \E c \in Calls :
        /\ max_retries = 3
        /\ pc[c] = "raised"
        /\ responses[c] = <<HttpResponse(503, ""), TransportFailure("ConnectError"),
                            HttpResponse(404, "")>>
        /\ Len(sleeps[c]) = 2
        /\ raised[c].code = 404

\* C30: under any interleaving of concurrent requests with close() calls and
\* scope exits on one client, every HTTP attempt, initial or retry, is issued
\* on an AsyncClient that has not been released.
C30_NoAttemptOnReleasedResource ==
    [][\A c \in Calls :
          Attempts(c)' > Attempts(c)
              => released[sent'[c][Attempts(c)'].resource] = 0]_vars

\* The case of C30: a call was sleeping in its backoff when a concurrent
\* close() released the AsyncClient the call was bound to.
C30_Case ==
    \E c \in Calls : pc[c] = "sleeping" /\ released[bound[c]] > 0

\* C31: get, post, put and delete do not modify the params mapping the caller
\* passed: once the call has started, and after it has returned or raised,
\* the caller's object holds the same keys and values as when it was passed.
C31_CallerParamsUnchanged ==
    \A c \in Calls : pc[c] # "idle" => callerDict[c] = args[c]

\* The case of C31: a call that was passed a non-empty mapping has ended.
C31_Case ==
    \E c \in Calls :
        /\ pc[c] \in {"returned", "raised"}
        /\ args[c] = Dict("q" :> "wheat")

\* The counters of C32 stay within the budget.
C32_CountersBounded ==
    \A c \in Calls :
        max_retries >= 0
            => /\ retries[c] \in 0..(max_retries + 1)
               /\ Attempts(c) <= max_retries + 1
               /\ (pc[c] = "raised" => Attempts(c) >= 1 /\ raised[c].attempt >= 1)
\* Every arrival at the head of the loop, from the start of the call or from
\* a sleep, issues an attempt; a call ends only in the step that ends an
\* attempt, by the return or by a raise of the except block.
C32_LoopHeadIssuesAttempt ==
    \A c \in Calls :
        /\ (max_retries >= 0 /\ pc[c] \in {"idle", "sleeping"} /\ pc'[c] # pc[c])
              => (pc'[c] = "awaiting" /\ Attempts(c)' = Attempts(c) + 1)
        /\ (max_retries >= 0 /\ pc'[c] \in {"returned", "raised"} /\ pc'[c] # pc[c])
              => (pc[c] = "awaiting" /\ Answered(c)' = Answered(c) + 1)

\* C32: for max_retries >= 0 the retry counter and the number of attempts
\* issued never exceed max_retries + 1, and the call leaves the loop only by
\* a return or a raise from inside it: the code after the loop is never
\* reached, and a failure is reported only after at least one attempt.
C32_FallThroughUnreachable ==
    /\ []C32_CountersBounded
    /\ [][C32_LoopHeadIssuesAttempt]_vars

\* C32 witness: with max_retries = 0 the single attempt failed with a 503 and
\* the call raised from the except block with the counter at max_retries + 1.
C32_Witness ==
    \E c \in Calls :
        /\ max_retries = 0
        /\ pc[c] = "raised"
        /\ responses[c] = <<HttpResponse(503, "")>>
        /\ retries[c] = 1
        /\ Attempts(c) = 1

\* C33: under any interleaving of concurrent operations on a disconnected
\* manager, a client that one operation installed is never overwritten by
\* the reconnect of another, and is never reset to "no client" by the failed
\* handshake of an operation that did not install it.
C33_InstalledClientNotOverwritten ==
    [][/\ (redis_client' # redis_client /\ redis_client' # 0) => redis_client = 0
       /\ \A t \in Threads :
             (ThreadPingEnds(t) /\ redis_client # 0 /\ redis_client' = 0)
                 => redis_client = tmine[t]]_vars

\* The case of C33: two threads are inside _setup_redis_client at the same
\* time, both having found self._client None.
C33_Case ==
    /\ redis_client = 0
    /\ \A t \in Threads : tpc[t] = "setup"

====
